---- MODULE Spec2Model ----
(***************************************************************************)
(* Budget grocery recommender: BudgetRanker.rank_products, the             *)
(* InferencePipeline.recommend orchestration, the /recommend basket        *)
(* endpoint, the ProductSearchIndex (build, save, load, search), the       *)
(* PricePredictor with the /price-trend endpoint, the serving process      *)
(* (get_pipeline, the lifespan hook and the endpoints of search.py),       *)
(* BudgetRanker.train with its relevance labels and its group split, and   *)
(* the deduplication of the cleaner in the training pipeline.              *)
(*                                                                         *)
(* Numbers.  Python floats are modelled on two integer scales:             *)
(*   - money (Package_price, budgets, totals) is binary floating point     *)
(*     with MantissaBits significant bits, held as an integer number of    *)
(*     units of 2^-ScaleBits: a decimal amount is stored as the nearest    *)
(*     representable value and every sum and quotient is rounded to the    *)
(*     nearest representable value, as binary64 does with 53 bits, so the  *)
(*     sum of two stored amounts need not be the stored form of the        *)
(*     decimal sum (0.1 + 0.2 # 0.3);                                      *)
(*   - scores (search_score, value_score, discount_pct, model output) are  *)
(*     exact integers in units of 0.01.                                    *)
(* NaN is the distinguished value NaN; every comparison with it is false.  *)
(***************************************************************************)
EXTENDS Integers, Sequences, FiniteSets, TLC

VARIABLES ranker, rk, pipeline, rc, bk, idx, disk, env, ops, sr, predictor, pkl, pp,
          pipeline_instance, files, app, rq, tr

vars == <<ranker, rk, pipeline, rc, bk, idx, disk, env, ops, sr, predictor, pkl, pp,
          pipeline_instance, files, app, rq, tr>>

-----------------------------------------------------------------------------
(* Bounds *)

MaxCand == 2
MaxTopN == 3
MaxCatalog == 2
MaxItems == 2
MaxHistory == 3
\* loads of one artifact that are counted in one process
MaxLoads == 2
\* rows of a training frame before the bulk rows
MaxTrain == 2

-----------------------------------------------------------------------------
(* Numeric helpers *)

NaN == -9999

None == "None"

MantissaBits == 8

ScaleBits == MantissaBits + 6

Unit == 2 ^ ScaleBits

RECURSIVE BitLen(_)
BitLen(n) == IF n = 0 THEN 0 ELSE 1 + BitLen(n \div 2)

\* a / b rounded to the nearest integer, ties to even (a >= 0, b > 0)
RoundHalfEven(a, b) ==
    LET q == a \div b
        r == a % b
    IN  IF 2 * r > b \/ (2 * r = b /\ q % 2 = 1) THEN q + 1 ELSE q

\* the representable value nearest to num / den units
RoundRat(num, den) ==
    LET sh == BitLen(num \div den) - MantissaBits
    IN  IF sh <= 0 THEN RoundHalfEven(num, den)
        ELSE RoundHalfEven(num, den * 2 ^ sh) * 2 ^ sh

\* the float nearest to the decimal num / den
FromRatio(num, den) == RoundRat(num * Unit, den)

\* the float nearest to a decimal amount of c cents
FromCents(c) == FromRatio(c, 100)

\* float addition
FAdd(a, b) == RoundRat(a + b, 1)

\* the number of cents nearest to a float
ToCents(x) == RoundHalfEven(x * 100, Unit)

\* Series.round(2) / round(x, 2) on a money value
Round2(x) == IF x = NaN THEN NaN ELSE FromCents(ToCents(x))

\* float comparisons: anything compared with NaN is False
Leq(a, b) == a # NaN /\ b # NaN /\ a <= b

Gt(a, b) == a # NaN /\ b # NaN /\ a > b

\* Series.fillna(0)
FillNa0(x) == IF x = NaN THEN 0 ELSE x

Min(a, b) == IF a <= b THEN a ELSE b

\* float accumulation of a sequence, left to right, onto acc
RECURSIVE FSum(_, _)
FSum(acc, s) == IF s = <<>> THEN acc ELSE FSum(FAdd(acc, Head(s)), Tail(s))

\* exact sum of a sequence of integers
RECURSIVE SumSeq(_)
SumSeq(s) == IF s = <<>> THEN 0 ELSE Head(s) + SumSeq(Tail(s))

SeqsUpTo(S, n) == UNION {[1..k -> S] : k \in 0..n}

-----------------------------------------------------------------------------
(* Data frames: a set of column names and a sequence of rows *)

BaseCols == {"Package_price", "value_score", "discount_pct", "city", "state"}

ScoreCol == "search_score"

Frame(cols, rows) == [cols |-> cols, rows |-> rows]

\* pd.DataFrame(): no columns, no rows
EmptyFrame == Frame({}, <<>>)

\* DataFrame.empty
IsEmpty(df) == df.rows = <<>> \/ df.cols = {}

\* head() that keeps one row too many
HeadRowsOffByOne(rows, n) == SubSeq(rows, 1, Min(n + 1, Len(rows)))

\* DataFrame.head(n), n >= 0
HeadRows(rows, n) == SubSeq(rows, 1, Min(n, Len(rows)))

Injective(f) == \A i, j \in DOMAIN f : f[i] = f[j] => i = j

\* every ordering of rows that is non-increasing in key (key[i] is the sort
\* key of rows[i]); rows with equal keys may come out in any order
\* (sort_values uses an unstable sort)
SortDescending(rows, key) ==
    LET n == Len(rows)
        perms == {p \in [1..n -> 1..n] : Injective(p)}
        sorted(p) == \A i \in 1..n : \A j \in 1..n :
                        i < j => key[p[i]] >= key[p[j]]
    IN  {[i \in 1..n |-> rows[p[i]]] : p \in {q \in perms : sorted(q)}}

-----------------------------------------------------------------------------
(* BudgetRanker *)

\* relevance guard threshold 0.01, in score units
MinSearchScore == 1

\* weight of search_score in the fused score (5.0)
SearchWeight == 5

\* usable rows train() needs
MinTrainRows == 10

\* MODEL_FEATURES, restricted to the feature columns the frames carry
FeatureNames == {"Package_price", "value_score", "discount_pct"}

\* fitted LightGBM boosters, each an arbitrary function of the feature vector
Boosters == {"byValue", "againstValue"}

\* Booster.predict on one row of X = df[feature_names].fillna(0)
BoosterPredict(m, r) ==
    IF m = "byValue"
    THEN 2 * FillNa0(r.value_score) + FillNa0(r.discount_pct)
    ELSE 0 - 3 * FillNa0(r.value_score)

\* BudgetRanker.__init__
NewRanker == [model |-> None]

\* the comparison with its operands swapped
BudgetFilterSwapped(rows, budget) ==
    SelectSeq(rows, LAMBDA r : Leq(budget, r.Package_price))

\* df[df["Package_price"] <= budget]
BudgetFilter(rows, budget) ==
    SelectSeq(rows, LAMBDA r : Leq(r.Package_price, budget))

\* the guard with >= in place of >
RelevanceGuardInclusive(rows) ==
    SelectSeq(rows, LAMBDA r : r.search_score # NaN /\ r.search_score >= MinSearchScore)

\* candidates[candidates["search_score"] > 0.01]
RelevanceGuard(rows) ==
    SelectSeq(rows, LAMBDA r : Gt(r.search_score, MinSearchScore))

\* the guard runs only on frames that carry a search_score column
GuardApplies(cols) == ScoreCol \in cols

\* the fallback without the discount term
FallbackScoreValueOnly(r) == FillNa0(r.value_score)

\* rule-based fallback score of a row
FallbackScore(r) == FillNa0(r.value_score) + FillNa0(r.discount_pct)

\* _total_score of a row
TotalScore(model, cols, r) ==
    (IF model # None THEN BoosterPredict(model, r) ELSE FallbackScore(r))
    + (IF ScoreCol \in cols THEN SearchWeight * r.search_score ELSE 0)

\* column lookups that raise KeyError while scoring
ScoringKeyError(model, cols) ==
    IF model # None
    THEN ~(FeatureNames \subseteq cols)
    ELSE ~({"value_score", "discount_pct"} \subseteq cols)

Raised(e) == [err |-> e, df |-> EmptyFrame]

Returned(df) == [err |-> "none", df |-> df]

\* sort_values("_total_score", ascending=False).head(top_n)
SortAndCut(model, cols, rows, top_n) ==
    {Returned(Frame(cols, HeadRows(s, top_n))) :
        s \in SortDescending(rows,
                 [i \in 1..Len(rows) |-> TotalScore(model, cols, rows[i])])}

\* rank_products with the scoring columns read before the early returns
rank_productsScoreFirst(model, df, budget, top_n) ==
    IF "Package_price" \notin df.cols THEN {Raised("KeyError")}
    ELSE
    LET within == BudgetFilter(df.rows, budget)
        kept == IF GuardApplies(df.cols) THEN RelevanceGuard(within) ELSE within
    IN  IF ScoringKeyError(model, df.cols) THEN {Raised("KeyError")}
        ELSE IF kept = <<>> THEN {Returned(EmptyFrame)}
        ELSE SortAndCut(model, df.cols, kept, top_n)

\* BudgetRanker.rank_products: the set of possible outcomes
rank_products(model, df, budget, top_n) ==
    IF "Package_price" \notin df.cols THEN {Raised("KeyError")}
    ELSE
    LET within == BudgetFilter(df.rows, budget)
        kept == IF GuardApplies(df.cols) THEN RelevanceGuard(within) ELSE within
    IN  IF within = <<>> THEN {Returned(EmptyFrame)}
        ELSE IF kept = <<>> THEN {Returned(EmptyFrame)}
        ELSE IF ScoringKeyError(model, df.cols) THEN {Raised("KeyError")}
        ELSE SortAndCut(model, df.cols, kept, top_n)

-----------------------------------------------------------------------------
(* Inputs of the ranker *)

Money == {0, FromCents(3), FromCents(4)}

NoLoc == "-"

RankRows ==
    [Package_price : Money, value_score : {NaN, 1}, discount_pct : {0, 1},
     search_score : {1, 2}, city : {NoLoc}, state : {NoLoc}, vec : {NoLoc}]

RankCols ==
    {BaseCols \cup {ScoreCol}, BaseCols, BaseCols \ {"value_score"}}

RankFrames == {Frame(c, rows) : c \in RankCols, rows \in SeqsUpTo(RankRows, MaxCand)}

RankBudgets == {0, FromCents(3)}

-----------------------------------------------------------------------------
(* ProductSearchIndex.  A product name stands for its own vector: the     *)
(* embedding or the term row of a name is a fixed function of the name and *)
(* of the model that produced it, so a vector index is the sequence of the *)
(* names it was built from, and the similarity of a query and a vector is  *)
(* a fixed function of the model, the query and the name, given as a table.*)
(* The name of a row is its field vec.                                     *)

Absent == [absent |-> TRUE]

NameCol == "Product_Name"

Queries == {"chicken", "milk"}

\* cosine similarity of the query vector and a product vector, in score units
Cosine(q, v) ==
    CASE q = "chicken" /\ v = "vChicken" -> 90
      [] q = "chicken" /\ v = "vMilk"    -> 1
      [] q = "milk"    /\ v = "vMilk"    -> 80
      [] q = "milk"    /\ v = "vChicken" -> 2
      [] OTHER                           -> 0

\* overretrieval width used by recommend
TopK == 50

\* SentenceTransformer("all-MiniLM-L6-v2")
Encoder == [name |-> "all-MiniLM-L6-v2"]

\* parameters of the term model that _build_tfidf fits
BuildParams == "ngram_range=(1, 2), min_df=1"

\* parameters of the term model that load fits when it finds no term artifact
RebuildParams == "stop_words=english"

\* a TfidfVectorizer, before or after fit_transform
Vectorizer(params, fitted) == [params |-> params, fitted |-> fitted]

\* similarity under a model: semantic similarity is signed, the term model
\* without bigrams and with stop words removed matches all or nothing
Similarity(model, q, v) ==
    CASE model = BuildParams   -> Cosine(q, v)
      [] model = RebuildParams -> IF Cosine(q, v) >= 50 THEN 100 ELSE 0
      [] OTHER                 -> Cosine(q, v) - 5

\* position and score that IndexFlatIP.search reports where it has no hit
NoHit == -1

NoHitScore == -1000000

\* ProductSearchIndex.__init__ (the attributes tfidf and tfidf_matrix do not
\* exist yet)
NewIndex ==
    [index |-> Absent, product_df |-> Absent, encoder |-> Absent,
     use_faiss |-> TRUE, tfidf |-> Absent, tfidf_matrix |-> Absent]

\* df["Product_Name"].fillna("").tolist()
Names(df) == [i \in 1..Len(df.rows) |-> df.rows[i].vec]

\* _build_tfidf: the object it leaves and the exception it raised
build_tfidf(self, df) ==
    LET started == [self EXCEPT !.product_df = df,
                                !.tfidf = Vectorizer(BuildParams, FALSE)]
    IN  IF NameCol \notin df.cols
        THEN [self |-> started, err |-> "KeyError"]
        ELSE [self |-> [started EXCEPT
                          !.tfidf = Vectorizer(BuildParams, TRUE),
                          !.tfidf_matrix = [rows |-> Names(df)]],
              err |-> "none"]

\* an artifact file that was opened for writing and never written
Truncated == [truncated |-> TRUE]

\* an embeddings directory without artifacts
EmptyDir == [faiss |-> Absent, parquet |-> Absent, meta |-> Absent, tfidf |-> Absent]

\* ProductSearchIndex.save: the directory it leaves and the exception it
\* raised; files of an earlier save that it does not write stay as they are
save(self, dir) ==
    LET d1 == IF self.use_faiss /\ self.index # Absent
              THEN [dir EXCEPT !.faiss = self.index]
              ELSE dir
    IN  IF self.product_df = Absent
        THEN [disk |-> d1, err |-> "AttributeError"]
        ELSE LET d2 == [d1 EXCEPT !.parquet = self.product_df,
                                  !.meta = [use_faiss |-> self.use_faiss]]
             IN  IF self.tfidf = Absent
                 THEN [disk |-> d2, err |-> "none"]
                 ELSE IF self.tfidf_matrix = Absent
                 THEN [disk |-> [d2 EXCEPT !.tfidf = Truncated],
                       err |-> "AttributeError"]
                 ELSE [disk |-> [d2 EXCEPT !.tfidf =
                                    [vectorizer |-> self.tfidf,
                                     matrix |-> self.tfidf_matrix]],
                       err |-> "none"]

\* the end of build: save if asked to
BuildDone(self, do_save, dir) ==
    IF do_save
    THEN LET s == save(self, dir)
         IN  [self |-> self, disk |-> s.disk, err |-> s.err]
    ELSE [self |-> self, disk |-> dir, err |-> "none"]

\* ProductSearchIndex.build in a process where sentence_transformers and
\* faiss are installed or not: the object and the directory it leaves and the
\* exception it raised
build(self, df, installed, do_save, dir) ==
    IF ~installed
    THEN LET b == build_tfidf([self EXCEPT !.use_faiss = FALSE], df)
         IN  IF b.err # "none"
             THEN [self |-> b.self, disk |-> dir, err |-> b.err]
             ELSE BuildDone(b.self, do_save, dir)
    ELSE LET started == [self EXCEPT !.use_faiss = TRUE, !.encoder = Encoder,
                                     !.product_df = df]
         IN  IF NameCol \notin df.cols
             THEN [self |-> started, disk |-> dir, err |-> "KeyError"]
             ELSE BuildDone([started EXCEPT !.index = [vectors |-> Names(df)]],
                            do_save, dir)

\* ProductSearchIndex.load: the instance it returns or the exception it raised
load(dir, installed) ==
    IF dir.parquet = Absent
    THEN [instance |-> Absent, err |-> "FileNotFoundError"]
    ELSE LET instance == [NewIndex EXCEPT !.product_df = dir.parquet]
         IN  IF installed /\ dir.faiss # Absent
             THEN [instance |-> [instance EXCEPT !.index = dir.faiss,
                                                 !.encoder = Encoder,
                                                 !.use_faiss = TRUE],
                   err |-> "none"]
             ELSE IF dir.tfidf = Truncated
             THEN [instance |-> Absent, err |-> "EOFError"]
             ELSE IF dir.tfidf # Absent
             THEN [instance |-> [instance EXCEPT
                                   !.tfidf = dir.tfidf.vectorizer,
                                   !.tfidf_matrix = dir.tfidf.matrix,
                                   !.use_faiss = FALSE],
                   err |-> "none"]
             ELSE IF NameCol \notin dir.parquet.cols
             THEN [instance |-> Absent, err |-> "KeyError"]
             ELSE [instance |-> [instance EXCEPT
                                   !.tfidf = Vectorizer(RebuildParams, TRUE),
                                   !.tfidf_matrix = [rows |-> Names(dir.parquet)],
                                   !.use_faiss = FALSE],
                   err |-> "none"]

\* columns of the processed catalog that the model keeps
CatalogCols == BaseCols \cup {NameCol}

\* the embeddings directory after the lexical build of train_pipeline
SavedDir(df) == build(NewIndex, df, FALSE, TRUE, EmptyDir).disk

\* the positions of the vectors, best first, each with its similarity to the
\* query; vectors of equal similarity come in any order
Ranking(model, vectors, query) ==
    LET n == Len(vectors)
        key == [i \in 1..n |-> Similarity(model, query, vectors[i])]
    IN  {[i \in 1..n |-> [pos |-> p[i], score |-> key[p[i]]]] :
            p \in SortDescending([i \in 1..n |-> i], key)}

\* IndexFlatIP.search: exactly top_k hits, the missing ones filled in
FaissHits(ranking, top_k) ==
    [i \in 1..top_k |-> IF i <= Len(ranking) THEN ranking[i]
                        ELSE [pos |-> NoHit, score |-> NoHitScore]]

\* product_df.iloc[positions] with the column search_score set: position -1
\* is the last row, a position past the last row is an IndexError
TakeRows(df, hits) ==
    LET n == Len(df.rows)
        at(h) == IF h.pos = NoHit THEN n ELSE h.pos
    IN  IF \E i \in 1..Len(hits) : at(hits[i]) > n \/ at(hits[i]) < 1
        THEN Raised("IndexError")
        ELSE Returned(Frame(df.cols \cup {ScoreCol},
                 [i \in 1..Len(hits) |->
                     [df.rows[at(hits[i])] EXCEPT !.search_score = hits[i].score]]))

\* _search_faiss; for top_k = 0 the faiss wrapper either raises or returns
\* no hits, depending on its version
search_faiss(self, query, top_k) ==
    {TakeRows(self.product_df, FaissHits(r, top_k)) :
        r \in Ranking(self.encoder.name, self.index.vectors, query)}
    \cup (IF top_k = 0 THEN {Raised("AssertionError")} ELSE {})

\* _search_tfidf with the scores in ascending order
search_tfidfAscending(self, query, top_k) ==
    IF ~self.tfidf.fitted
    THEN {Raised("NotFittedError")}
    ELSE {TakeRows(self.product_df,
                   HeadRows([i \in 1..Len(r) |-> r[Len(r) + 1 - i]], top_k)) :
             r \in Ranking(self.tfidf.params, self.tfidf_matrix.rows, query)}

\* _search_tfidf
search_tfidf(self, query, top_k) ==
    IF ~self.tfidf.fitted
    THEN {Raised("NotFittedError")}
    ELSE {TakeRows(self.product_df, HeadRows(r, top_k)) :
             r \in Ranking(self.tfidf.params, self.tfidf_matrix.rows, query)}

\* ProductSearchIndex.search: the possible outcomes
search(self, query, top_k) ==
    IF self.use_faiss /\ self.index # Absent
    THEN search_faiss(self, query, top_k)
    ELSE IF self.tfidf # Absent
    THEN search_tfidf(self, query, top_k)
    ELSE {Raised("RuntimeError")}

-----------------------------------------------------------------------------
(* InferencePipeline *)

\* InferencePipeline.__init__
NewPipeline == [ranker |-> Absent, search_index |-> Absent, full_df |-> Absent]

\* InferencePipeline.load
LoadedPipeline(model, catalog) ==
    [ranker |-> [model |-> model],
     search_index |-> load(SavedDir(Frame(CatalogCols, catalog)), FALSE).instance,
     full_df |-> Frame(CatalogCols, catalog)]

\* str.lower() on the city names in use
Lower(str) ==
    CASE str \in {"Sydney", "SYDNEY", "sydney"} -> "sydney"
      [] str \in {"Perth", "PERTH", "perth"}    -> "perth"
      [] OTHER                                  -> str

\* str.upper() on the state names in use
Upper(str) ==
    CASE str \in {"Nsw", "nsw", "NSW"} -> "NSW"
      [] str \in {"Wa", "wa", "WA"}    -> "WA"
      [] OTHER                         -> str

\* truth value of an optional string argument
Truthy(arg) == arg # None /\ arg # ""

CityMatch(rows, city) == SelectSeq(rows, LAMBDA r : Lower(r.city) = Lower(city))

StateMatch(rows, state) == SelectSeq(rows, LAMBDA r : Upper(r.state) = Upper(state))

\* the city filter applied even when nothing matches
CityFilterHard(rows, city) ==
    IF Truthy(city) THEN CityMatch(rows, city) ELSE rows

\* soft city filter
CityFilter(rows, city) ==
    IF Truthy(city) /\ Len(CityMatch(rows, city)) > 0
    THEN CityMatch(rows, city)
    ELSE rows

\* soft state filter
StateFilter(rows, state) ==
    IF Truthy(state) /\ Len(StateMatch(rows, state)) > 0
    THEN StateMatch(rows, state)
    ELSE rows

\* columns that the output formatting reads unconditionally
RoundedCols == {"Package_price", "discount_pct", "value_score"}

\* one output dict: price rounded to cents, discount_pct as a percentage
\* (one score unit is one percent), value_score to two decimals
FormatRow(r) ==
    [r EXCEPT !.Package_price = Round2(r.Package_price)]

Failure(e, retrieved, city_rows, state_rows) ==
    [err |-> e, results |-> <<>>, retrieved |-> retrieved,
     city_rows |-> city_rows, state_rows |-> state_rows]

Success(results, retrieved, city_rows, state_rows) ==
    [err |-> "none", results |-> results, retrieved |-> retrieved,
     city_rows |-> city_rows, state_rows |-> state_rows]

\* step 4 without the check for an empty ranking
FormatRankedUnchecked(ranked, retrieved, city_rows, state_rows) ==
    IF ranked.err # "none"
    THEN Failure(ranked.err, retrieved, city_rows, state_rows)
    ELSE IF ~(RoundedCols \subseteq ranked.df.cols)
    THEN Failure("KeyError", retrieved, city_rows, state_rows)
    ELSE Success([i \in 1..Len(ranked.df.rows) |-> FormatRow(ranked.df.rows[i])],
                 retrieved, city_rows, state_rows)

\* steps 3 and 4 of recommend on the outcome of rank_products
FormatRanked(ranked, retrieved, city_rows, state_rows) ==
    IF ranked.err # "none"
    THEN Failure(ranked.err, retrieved, city_rows, state_rows)
    ELSE IF IsEmpty(ranked.df)
    THEN Success(<<>>, retrieved, city_rows, state_rows)
    ELSE IF ~(RoundedCols \subseteq ranked.df.cols)
    THEN Failure("KeyError", retrieved, city_rows, state_rows)
    ELSE Success([i \in 1..Len(ranked.df.rows) |-> FormatRow(ranked.df.rows[i])],
                 retrieved, city_rows, state_rows)

\* recommend after retrieval
RecommendFrom(p, candidates, budget, city, state, top_n) ==
    IF IsEmpty(candidates)
    THEN {Success(<<>>, <<>>, <<>>, <<>>)}
    ELSE LET city_rows == CityFilter(candidates.rows, city)
             state_rows == StateFilter(city_rows, state)
         IN  {FormatRanked(ranked, candidates.rows, city_rows, state_rows) :
                 ranked \in rank_products(p.ranker.model,
                                          Frame(candidates.cols, state_rows),
                                          budget, top_n)}

\* InferencePipeline.recommend: the set of possible outcomes, each with the
\* candidate rows after retrieval, after the city filter and after the state
\* filter
recommend(p, query, budget, city, state, top_n) ==
    IF p.search_index = Absent
    THEN {Failure("AttributeError", <<>>, <<>>, <<>>)}
    ELSE UNION {IF found.err # "none"
                THEN {Failure(found.err, <<>>, <<>>, <<>>)}
                ELSE RecommendFrom(p, found.df, budget, city, state, top_n) :
                   found \in search(p.search_index, query, TopK)}

-----------------------------------------------------------------------------
(* Inputs of the pipeline *)

PipeRows ==
    [Package_price : {FromCents(3), FromCents(4)}, value_score : {1},
     discount_pct : {0}, search_score : {NaN}, city : {"Sydney", "Perth"},
     state : {"Nsw", "Wa"}, vec : {"vChicken", "vMilk"}]

PipeCatalogs == SeqsUpTo(PipeRows, MaxCatalog)

PipeModels == {None, "byValue"}

PipeBudgets == {FromCents(2), FromCents(3)}

CityArgs == {None, "", "sydney", "darwin"}

StateArgs == {None, "WA", "NT"}

-----------------------------------------------------------------------------
(* POST /recommend: recommend_basket *)

\* number of candidates asked for per basket item
BasketTopN == 3

\* value of a local variable that has not been assigned
Unbound == -1

\* float division; a zero divisor raises ZeroDivisionError
Divide(a, b) == IF b = 0 THEN [err |-> "ZeroDivisionError", val |-> Unbound]
                ELSE [err |-> "none", val |-> RoundRat(a, b)]

\* state of a handler that ended with the given HTTP status
Ended(req, status, per_item_budget) ==
    [pc |-> "done", status |-> status, req |-> req,
     per_item_budget |-> per_item_budget, i |-> 1, results |-> <<>>,
     basket |-> <<>>, estimated_total |-> 0, calls |-> <<>>,
     resp |-> Absent]

\* state of a handler that is about to enter its loop
Looping(req, per_item_budget) ==
    [pc |-> "first", status |-> 0, req |-> req,
     per_item_budget |-> per_item_budget, i |-> 1, results |-> <<>>,
     basket |-> <<>>, estimated_total |-> 0, calls |-> <<>>,
     resp |-> Absent]

\* the prologue without the check for an empty list
EnterBasketUnchecked(req) ==
    LET share == Divide(req.total_budget, Len(req.items))
    IN  IF share.err # "none" THEN Ended(req, 500, Unbound)
        ELSE Looping(req, share.val)

\* the prologue of recommend_basket: validation and the per-item budget
EnterBasket(req) ==
    IF Len(req.items) = 0 THEN Ended(req, 400, Unbound)
    ELSE LET share == Divide(req.total_budget, Len(req.items))
         IN  IF share.err # "none" THEN Ended(req, 500, Unbound)
             ELSE Looping(req, share.val)

\* one entry of the log of calls made to pipeline.recommend
CallEntry(h, budget, out) ==
    [item |-> h.i, query |-> h.req.items[h.i], budget |-> budget,
     city |-> h.req.city, state |-> h.req.state, top_n |-> BasketTopN,
     err |-> out.err, results |-> out.results]

\* the handler after a call of pipeline.recommend returned or raised
AfterCall(h, budget, out, next_pc) ==
    IF out.err # "none"
    THEN [h EXCEPT !.pc = "done", !.status = 500,
                   !.calls = Append(@, CallEntry(h, budget, out))]
    ELSE [h EXCEPT !.pc = next_pc, !.results = out.results,
                   !.calls = Append(@, CallEntry(h, budget, out))]

\* the retry made with the per-item share instead of the full budget
RetryBudgetShare(h) == h.per_item_budget

\* budget of the second call for an item
RetryBudget(h) == h.req.total_budget

\* the basket line for the current item
BasketItem(h) ==
    IF h.results # <<>>
    THEN [query |-> h.req.items[h.i], best_match |-> h.results[1],
          alternatives |-> Tail(h.results),
          estimated_cost |-> h.results[1].Package_price]
    ELSE [query |-> h.req.items[h.i], best_match |-> Absent,
          alternatives |-> <<>>, estimated_cost |-> 0]

\* RecommendResponse
Response(h) ==
    [total_budget |-> h.req.total_budget,
     estimated_total |-> Round2(h.estimated_total),
     within_budget |-> (h.estimated_total <= h.req.total_budget),
     basket |-> h.basket]

-----------------------------------------------------------------------------
(* Inputs of the basket endpoint *)

\* prices are whole cents or, for 0.0035, a price between two cents
BasketRows ==
    [Package_price : {FromCents(3), FromRatio(35, 1000), FromCents(4)},
     value_score : {1},
     discount_pct : {0}, search_score : {NaN}, city : {"Sydney"},
     state : {"Nsw"}, vec : {"vChicken", "vMilk"}]

BasketCatalogs == SeqsUpTo(BasketRows, MaxCatalog)

TotalBudgets == {FromCents(2), FromCents(6), FromCents(7)}

BasketRequests ==
    [items : SeqsUpTo(Queries, MaxItems), total_budget : TotalBudgets,
     city : {None, "sydney"}, state : {None}]

-----------------------------------------------------------------------------
(* PricePredictor.  Prices, predictions and their differences are exact    *)
(* integers in units of 0.001; NaN is the null price.  The history table   *)
(* is the sequence of its rows, each with Sku, RunDate and Package_price.  *)

\* the price floor 0.10 and the trend threshold 0.20
PriceFloor == 100

TrendThreshold == 200

\* fewest usable rows that train fits on
MinTrainSamples == 100

\* fewest usable observations for confidence "medium"
MediumHistory == 5

\* _get_feature_cols
FeatureCols ==
    {"days_since_epoch", "day_of_year", "week_of_year", "month", "prev_price",
     "price_change", "rolling_mean", "is_special", "is_estimated",
     "category_code", "sub_category_code"}

\* PricePredictor.__init__ (the attribute trained_feature_cols does not exist
\* yet)
NewPredictor ==
    [is_trained |-> FALSE, min_history |-> 3, fitted |-> FALSE,
     trained_feature_cols |-> Absent]

\* train without the check of the number of samples
trainUnchecked(self, usable) ==
    [self EXCEPT !.is_trained = TRUE, !.fitted = TRUE,
                 !.trained_feature_cols = [cols |-> FeatureCols]]

\* PricePredictor.train on a history with the given number of usable rows
train(self, usable) ==
    IF usable < MinTrainSamples
    THEN self
    ELSE [self EXCEPT !.is_trained = TRUE, !.fitted = TRUE,
                      !.trained_feature_cols = [cols |-> FeatureCols]]

Lt(a, b) == a # NaN /\ b # NaN /\ a < b

\* float subtraction
Minus(a, b) == IF a = NaN \/ b = NaN THEN NaN ELSE a - b

\* round(x, 2)
RoundCents(x) ==
    IF x = NaN THEN NaN
    ELSE IF x >= 0 THEN 10 * RoundHalfEven(x, 10)
    ELSE -(10 * RoundHalfEven(-x, 10))

\* df[df["Sku"] == sku]
SkuRows(sku, df) == SelectSeq(df, LAMBDA r : r.Sku = sku)

\* the rows that _build_time_features keeps
Usable(rows) == SelectSeq(rows, LAMBDA r : r.Package_price # NaN)

\* the fallback taken one observation too late
UseFallbackOffByOne(self, n) == n < self.min_history - 1 \/ ~self.is_trained

\* not enough history or model not trained
UseFallback(self, n) == n < self.min_history \/ ~self.is_trained

\* a prediction that is not floored
UnflooredPrice(y) == y

\* max(predicted, 0.10)
FlooredPrice(y) == IF y > PriceFloor THEN y ELSE PriceFloor

Trend(change) ==
    IF Gt(change, TrendThreshold) THEN "rising"
    ELSE IF Lt(change, -TrendThreshold) THEN "falling"
    ELSE "stable"

\* the outcome of predict_next_price: the dict it returned or the exception
\* it raised, whether scaler and model were applied, and what the model said
Predicted(trend, applied, y) ==
    [err |-> "none", trend |-> trend, applied |-> applied, raw |-> y]

PredictRaised(e, applied) ==
    [err |-> e, trend |-> Absent, applied |-> applied, raw |-> NaN]

\* the model path of predict_next_price, y being what model.predict returns
ModelPath(sku, sku_df, last_known, y) ==
    IF Usable(sku_df) = <<>>
    THEN PredictRaised("ValueError", TRUE)
    ELSE LET predicted == FlooredPrice(y)
             change == Minus(predicted, last_known)
         IN  Predicted([sku |-> sku,
                        predicted_price |-> RoundCents(predicted),
                        last_known_price |-> RoundCents(last_known),
                        price_change |-> RoundCents(change),
                        trend |-> Trend(change),
                        confidence |-> IF Len(Usable(sku_df)) >= MediumHistory
                                       THEN "medium" ELSE "low"],
                       TRUE, y)

\* predict_next_price that reads the last price without looking for rows
predict_next_priceUnchecked(self, sku, df, y) ==
    LET sku_df == SkuRows(sku, df)
    IN  IF sku_df = <<>>
        THEN PredictRaised("IndexError", FALSE)
        ELSE LET last_known == sku_df[Len(sku_df)].Package_price
             IN  IF UseFallback(self, Len(sku_df))
                 THEN Predicted([sku |-> sku,
                                 predicted_price |-> last_known,
                                 last_known_price |-> last_known,
                                 trend |-> "stable",
                                 confidence |-> "low"],
                                FALSE, NaN)
                 ELSE ModelPath(sku, sku_df, last_known, y)

\* PricePredictor.predict_next_price, y being what model.predict would return
predict_next_price(self, sku, df, y) ==
    LET sku_df == SkuRows(sku, df)
    IN  IF sku_df = <<>>
        THEN Predicted([error |-> "not found", sku |-> sku], FALSE, NaN)
        ELSE LET last_known == sku_df[Len(sku_df)].Package_price
             IN  IF UseFallback(self, Len(sku_df))
                 THEN Predicted([sku |-> sku,
                                 predicted_price |-> last_known,
                                 last_known_price |-> last_known,
                                 trend |-> "stable",
                                 confidence |-> "low"],
                                FALSE, NaN)
                 ELSE ModelPath(sku, sku_df, last_known, y)

\* PricePredictor.get_price_history: the rows of the identifier by date,
\* rows of equal date in any order, without the rows that have no price
get_price_history(sku, df) ==
    LET rows == SkuRows(sku, df)
    IN  {Usable(srt) :
            srt \in SortDescending(rows, [i \in 1..Len(rows) |-> -rows[i].RunDate])}

\* what an endpoint answers: the status, the body, and the outcome of its
\* call of predict_next_price (Absent when it did not get that far)
Answer(status, body, predicted) ==
    [status |-> status, body |-> body, predicted |-> predicted]

\* GET /price-trend/{sku} with the forecaster artifact found on disk and the
\* history table of the pipeline: the possible answers
price_trend(file, sku, df, y) ==
    IF file = Absent
    THEN {Answer(503, Absent, Absent)}
    ELSE LET out == predict_next_price(file.object, sku, df, y)
         IN  IF out.err # "none"
             THEN {Answer(500, Absent, out)}
             ELSE IF "error" \in DOMAIN out.trend
             THEN {Answer(404, Absent, out)}
             ELSE {Answer(200, [trend |-> out.trend, history |-> [rows |-> h]], out) :
                      h \in get_price_history(sku, df)}

-----------------------------------------------------------------------------
(* Inputs of the forecaster *)

\* the identifiers that are asked for; the history also has rows of
\* identifier "B"
Skus == {"A"}

HistoryRows ==
    [Sku : Skus, RunDate : {1, 2}, Package_price : {NaN, 300, 400}]
    \cup {[Sku |-> "B", RunDate |-> 1, Package_price |-> 300]}

Histories == SeqsUpTo(HistoryRows, MaxHistory)

\* outputs of the fitted regression
Predictions == {-50, 150, 200, 500, 501, 601}

-----------------------------------------------------------------------------
(* Inputs of the search index *)

IndexRows ==
    [Package_price : {FromCents(3)}, value_score : {1}, discount_pct : {0},
     search_score : {NaN}, city : {"Sydney"}, state : {"Nsw"},
     vec : {"vChicken", "vMilk"}]

\* catalogs with at least one product and one row per product, and frames
\* of one row that lack the name column
IndexFrames ==
    {Frame(CatalogCols, rows) :
        rows \in {c \in SeqsUpTo(IndexRows, MaxCatalog) : c # <<>> /\ Injective(c)}}
    \cup {Frame(BaseCols, <<r>>) : r \in IndexRows}

\* the one query that the index is searched with
IndexQueries == {"chicken"}

\* what has happened to the index object and to the directory so far:
\* completed: a build or a load has completed on the object;
\* lexical: the object is as a completed lexical build left it;
\* loaded: the outcome of load, when load was the last operation;
\* saved: the object as it was when the last save completed, when that
\* object was as a lexical build left it and the directory has not been
\* written to since
NoOps == [completed |-> FALSE, lexical |-> FALSE, loaded |-> "no", saved |-> Absent]

-----------------------------------------------------------------------------
(* The serving process: get_pipeline, the lifespan hook and the endpoints  *)
(* of search.py.  The artifacts are models/ranker_v1.pkl and               *)
(* data/processed/products_clean.parquet (files), the embeddings directory *)
(* (disk) and the forecaster pickle (pkl).                                  *)

NoFiles == [ranker |-> Absent, processed |-> Absent, raw |-> Absent]

\* the components of which the loads are counted
Components == {"ranker", "search_index", "full_df", "forecaster"}

\* the serving process: phase is "down" while there is none, "init" from its
\* start until the lifespan hook has run, then "serving", or "failed" when
\* the hook raised; loads counts the loads of each component in the process,
\* started is the pipeline object as the hook left it
NoApp == [phase |-> "down", loads |-> [c \in Components |-> 0], started |-> Absent]

\* a process that has just been started
NewApp == [NoApp EXCEPT !.phase = "init"]

\* InferencePipeline.load: the object as the call leaves it, the exception
\* it raised and the components it loaded
pipeline_load(self, store, dir, installed) ==
    IF store.ranker = Absent
    THEN [self |-> self, err |-> "FileNotFoundError", loaded |-> {}]
    ELSE LET p1 == [self EXCEPT !.ranker = store.ranker]
             l == load(dir, installed)
         IN  IF l.err # "none"
             THEN [self |-> p1, err |-> l.err, loaded |-> {"ranker"}]
             ELSE LET p2 == [p1 EXCEPT !.search_index = l.instance]
                  IN  IF store.processed = Absent
                      THEN [self |-> p2, err |-> "FileNotFoundError",
                            loaded |-> {"ranker", "search_index"}]
                      ELSE [self |-> [p2 EXCEPT !.full_df = store.processed],
                            err |-> "none",
                            loaded |-> {"ranker", "search_index", "full_df"}]

\* get_pipeline: the module global as the call leaves it, the exception it
\* raised and the components it loaded; the global is assigned before load
\* is called
get_pipeline(inst, store, dir, installed) ==
    IF inst = Absent
    THEN LET l == pipeline_load(NewPipeline, store, dir, installed)
         IN  [instance |-> l.self, err |-> l.err, loaded |-> l.loaded]
    ELSE [instance |-> inst, err |-> "none", loaded |-> {}]

\* a price of the catalog on the scale of the forecaster
Mills(x) == IF x = NaN THEN NaN ELSE ToCents(x) * 10

\* the columns of full_df that the forecaster reads
AsHistory(df) ==
    [i \in 1..Len(df.rows) |->
        [Sku |-> df.rows[i].Sku, RunDate |-> df.rows[i].RunDate,
         Package_price |-> Mills(df.rows[i].Package_price)]]

\* POST /search with what Depends(get_pipeline) produced: an exception of
\* the dependency is answered with 500, one of recommend with 500
search_products(got, query, budget, city, state, max_results) ==
    IF got.err # "none"
    THEN {Answer(500, Absent, Absent)}
    ELSE {IF out.err # "none"
          THEN Answer(500, Absent, Absent)
          ELSE Answer(200, [total_found |-> Len(out.results),
                            results |-> out.results], Absent) :
             out \in recommend(got.instance, query, budget, city, state, max_results)}

\* GET /price-trend/{sku} with what Depends(get_pipeline) produced and the
\* forecaster artifact found on disk; a pipeline without full_df makes
\* predict_next_price raise TypeError
price_trend_served(got, file, sku, y) ==
    IF got.err # "none"
    THEN {Answer(500, Absent, Absent)}
    ELSE IF file # Absent /\ got.instance.full_df = Absent
    THEN {Answer(500, Absent, Absent)}
    ELSE price_trend(file, sku,
                     IF file = Absent THEN <<>> ELSE AsHistory(got.instance.full_df), y)

\* the load counters after the given components were loaded once more
Counted(loads, loaded) ==
    [c \in Components |-> IF c \in loaded THEN loads[c] + 1 ELSE loads[c]]

\* drop_duplicates(subset=["Sku"]): the first row of every identifier
RECURSIVE DropDuplicates(_, _)
DropDuplicates(rows, seen) ==
    IF rows = <<>> THEN <<>>
    ELSE IF Head(rows).Sku \in seen THEN DropDuplicates(Tail(rows), seen)
    ELSE <<Head(rows)>> \o DropDuplicates(Tail(rows), seen \cup {Head(rows).Sku})

\* cleaner.deduplicate: the most recent row of every identifier, rows of
\* equal date in any order
deduplicate(rows) ==
    {DropDuplicates(s, {}) :
        s \in SortDescending(rows, [i \in 1..Len(rows) |-> rows[i].RunDate])}

\* cleaner.clean on a dataset whose rows all have a price: the frames it can
\* return
clean(df) == {Frame(df.cols, rows) : rows \in deduplicate(df.rows)}

\* rows of the raw dataset, one per product
AppRows ==
    {[Package_price |-> FromCents(3), value_score |-> 1, discount_pct |-> 0,
      search_score |-> NaN, city |-> "Sydney", state |-> "Nsw",
      vec |-> "vChicken", Sku |-> "A", RunDate |-> 1],
     [Package_price |-> FromCents(4), value_score |-> 1, discount_pct |-> 0,
      search_score |-> NaN, city |-> "Perth", state |-> "Wa",
      vec |-> "vMilk", Sku |-> "B", RunDate |-> 2]}

\* three observations of one product, on three dates
AppHistory ==
    [d \in 1..3 |->
        [Package_price |-> FromCents(IF d = 2 THEN 4 ELSE 3), value_score |-> 1,
         discount_pct |-> 0, search_score |-> NaN, city |-> "Sydney",
         state |-> "Nsw", vec |-> "vChicken", Sku |-> "A", RunDate |-> d]]

\* raw datasets: of one row per product, with the name column and one
\* without it
AppFrames ==
    {Frame(CatalogCols \cup {"Sku", "RunDate"}, rows) :
        rows \in {c \in SeqsUpTo(AppRows, MaxCatalog) : c # <<>> /\ Injective(c)}}
    \cup {Frame(BaseCols \cup {"Sku", "RunDate"}, <<r>>) :
             r \in {a \in AppRows : a.Sku = "A"}}

\* raw datasets: those, and the dataset of the three observations
RawFrames == AppFrames \cup {Frame(CatalogCols \cup {"Sku", "RunDate"}, AppHistory)}

-----------------------------------------------------------------------------
(* BudgetRanker training.  A training row is a record of its sub-category, *)
(* its value_score and its price_per_100g.  Rows of one sub-category with  *)
(* the same value_score are equal records, so the order that sort_values   *)
(* gives to them cannot be told apart; the sorted frame is written with    *)
(* the rows of each sub-category in their order of appearance.             *)

\* LightGBM's largest label
MAX_LABEL == 30

\* the sub-categories in use, in sort order
GroupNames == <<"Bulk", "Dairy", "Meat">>

\* df.dropna(subset=["price_per_100g", "value_score"])
UsableRows(df) ==
    SelectSeq(df, LAMBDA r : r.price_per_100g # NaN /\ r.value_score # NaN)

SubCategories(df) == {df[i].Sub_category : i \in DOMAIN df}

Members(df, g) == {i \in DOMAIN df : df[i].Sub_category = g}

\* df.sort_values("Sub_category").reset_index(drop=True)
RECURSIVE SortBySubCategory(_, _)
SortBySubCategory(df, names) ==
    IF names = <<>> THEN <<>>
    ELSE SelectSeq(df, LAMBDA r : r.Sub_category = Head(names))
         \o SortBySubCategory(df, Tail(names))

\* groupby("Sub_category")["value_score"].rank(method="first", ascending=True)
\* at position i of the sorted frame
RawRank(df, i) ==
    Cardinality({j \in Members(df, df[i].Sub_category) :
                    \/ df[j].value_score < df[i].value_score
                    \/ df[j].value_score = df[i].value_score /\ j <= i})

\* scale_group that gives the largest label to a group of one rank
scale_groupTop(grp) ==
    LET ranks == {grp[i] : i \in DOMAIN grp}
        mn == CHOOSE r \in ranks : \A q \in ranks : r <= q
        mx == CHOOSE r \in ranks : \A q \in ranks : r >= q
    IN  [i \in DOMAIN grp |->
            IF mx = mn THEN MAX_LABEL
            ELSE RoundHalfEven((grp[i] - mn) * MAX_LABEL, mx - mn)]

\* scale_group on the ranks of one group, a function of the positions of its
\* rows
scale_group(grp) ==
    LET ranks == {grp[i] : i \in DOMAIN grp}
        mn == CHOOSE r \in ranks : \A q \in ranks : r <= q
        mx == CHOOSE r \in ranks : \A q \in ranks : r >= q
    IN  [i \in DOMAIN grp |->
            IF mx = mn THEN 0
            ELSE RoundHalfEven((grp[i] - mn) * MAX_LABEL, mx - mn)]

\* clip(0, MAX_LABEL)
Clip(x) == IF x < 0 THEN 0 ELSE IF x > MAX_LABEL THEN MAX_LABEL ELSE x

\* groupby("Sub_category", sort=False).size().values
GroupSizes(df) ==
    LET present == SelectSeq(GroupNames, LAMBDA g : g \in SubCategories(df))
    IN  [k \in DOMAIN present |-> Cardinality(Members(df, present[k]))]

\* groupby("Sub_category")["_raw_rank"].transform(scale_group), clipped: the
\* relevance of every group, by position
Relevance(df) ==
    [g \in SubCategories(df) |->
        LET scaled == scale_group([i \in Members(df, g) |-> RawRank(df, i)])
        IN  [i \in Members(df, g) |-> Clip(scaled[i])]]

\* _build_groups_and_labels: the sorted frame with its relevance column, and
\* the group sizes
build_groups_and_labels(df) ==
    LET sorted == SortBySubCategory(df, GroupNames)
        relevance == Relevance(sorted)
    IN  [df |-> [i \in DOMAIN sorted |->
                    [Sub_category |-> sorted[i].Sub_category,
                     value_score |-> sorted[i].value_score,
                     price_per_100g |-> sorted[i].price_per_100g,
                     relevance |-> relevance[sorted[i].Sub_category][i]]],
         groups |-> GroupSizes(sorted)]

\* GroupShuffleSplit(n_splits=1, test_size=0.2): the number of groups of the
\* validation split is the ceiling of a fifth of the groups
NTest(n_groups) == (n_groups + 4) \div 5

\* the sets of groups that the splitter can put into the validation split
Splits(df) ==
    {test \in SUBSET SubCategories(df) :
        Cardinality(test) = NTest(Cardinality(SubCategories(df)))}

\* what lgb.train is given: the training rows with their group sizes, the
\* validation rows with theirs, and whether it stops early on them
Fit(train_rows, train_groups, val_rows, val_groups, validated) ==
    [train_rows |-> train_rows, train_groups |-> train_groups,
     val_rows |-> val_rows, val_groups |-> val_groups,
     valid_sets |-> validated, early_stopping |-> validated]

\* the split that puts every group into both parts
FitOnSplitShared(labelled, test) ==
    Fit(labelled, GroupSizes(labelled), labelled, GroupSizes(labelled), TRUE)

\* the else branch of train: split by group, group sizes recomputed
FitOnSplit(labelled, test) ==
    LET train_rows == SelectSeq(labelled, LAMBDA r : r.Sub_category \notin test)
        val_rows == SelectSeq(labelled, LAMBDA r : r.Sub_category \in test)
    IN  Fit(train_rows, GroupSizes(train_rows), val_rows, GroupSizes(val_rows), TRUE)

\* train without the check of the number of usable rows
ranker_trainUnchecked(self, df, fitted, test) ==
    [self |-> [model |-> fitted], fit |-> Absent]

\* BudgetRanker.train with the booster that lgb.train returns and the groups
\* that the splitter puts into the validation split: the ranker it leaves
\* and what lgb.train was given (Absent when it was not called)
ranker_train(self, df, fitted, test) ==
    IF df = <<>> \/ Len(UsableRows(df)) < MinTrainRows
    THEN [self |-> self, fit |-> Absent]
    ELSE LET b == build_groups_and_labels(UsableRows(df))
         IN  [self |-> [model |-> fitted],
              fit |-> IF Cardinality(SubCategories(b.df)) < 2
                      THEN Fit(b.df, b.groups, <<>>, <<>>, FALSE)
                      ELSE FitOnSplit(b.df, test)]

\* the choices of the splitter in a call of train
TestChoices(df) ==
    IF Len(UsableRows(df)) < MinTrainRows \/ Cardinality(SubCategories(UsableRows(df))) < 2
    THEN {{}}
    ELSE Splits(UsableRows(df))

\* rows of the training frames
TrainRows ==
    [Sub_category : {"Dairy", "Meat"}, value_score : {NaN, 1, 2}, price_per_100g : {5}]
    \cup {[Sub_category |-> "Dairy", value_score |-> 1, price_per_100g |-> NaN]}

\* n rows of one more sub-category, of value scores 1 to n
Bulk(n) == [i \in 1..n |-> [Sub_category |-> "Bulk", value_score |-> i,
                            price_per_100g |-> 5]]

\* training frames: up to MaxTrain rows, then none or about MinTrainRows
\* bulk rows
TrainFrames ==
    {rows \o Bulk(n) : rows \in SeqsUpTo(TrainRows, MaxTrain),
                       n \in {0, MinTrainRows - 1, MinTrainRows}}

-----------------------------------------------------------------------------
(* State *)

NoCall == [called |-> FALSE]

Init ==
    /\ ranker = NewRanker
    /\ rk = NoCall
    /\ pipeline = NewPipeline
    /\ rc = NoCall
    /\ bk = NoCall
    /\ idx = NewIndex
    /\ disk = EmptyDir
    /\ env = TRUE
    /\ ops = NoOps
    /\ sr = NoCall
    /\ predictor = NewPredictor
    /\ pkl = Absent
    /\ pp = NoCall
    /\ pipeline_instance = Absent
    /\ files = NoFiles
    /\ app = NoApp
    /\ rq = NoCall
    /\ tr = NoCall

\* BudgetRanker.train: a no-op below MinTrainRows usable rows, otherwise the
\* model is replaced by the booster that was fitted
Train(usable, fitted) ==
    /\ ranker' = IF usable < MinTrainRows THEN ranker ELSE [model |-> fitted]
    /\ UNCHANGED <<rk, pipeline, rc, bk, idx, disk, env, ops, sr, predictor, pkl, pp,
                 pipeline_instance, files, app, rq, tr>>

\* one call of rank_products on the ranker
RankProducts(df, budget, top_n) ==
    /\ \E out \in rank_products(ranker.model, df, budget, top_n) :
          rk' = [called |-> TRUE, df |-> df, budget |-> budget,
                 top_n |-> top_n, model |-> ranker.model, out |-> out]
    /\ UNCHANGED <<ranker, pipeline, rc, bk, idx, disk, env, ops, sr, predictor, pkl, pp,
                 pipeline_instance, files, app, rq, tr>>

\* the caller takes the result; the ranker is ready for the next call
RankReturn ==
    /\ rk # NoCall
    /\ rk' = NoCall
    /\ UNCHANGED <<ranker, pipeline, rc, bk, idx, disk, env, ops, sr, predictor, pkl, pp,
                 pipeline_instance, files, app, rq, tr>>

NextRank ==
    \/ RankReturn
    \/ /\ rk = NoCall
       /\ \E usable \in {0, MinTrainRows - 1, MinTrainRows}, m \in Boosters :
             Train(usable, m)
    \/ /\ rk = NoCall
       /\ \E df \in RankFrames, b \in RankBudgets, n \in 0..MaxTopN :
             RankProducts(df, b, n)

SpecRank == Init /\ [][NextRank]_vars

\* ranker.train(df, save): the ranker is pickled after a fit
RankerTrain(df, fitted, do_save, test) ==
    /\ \E out \in {ranker_train(ranker, df, fitted, test)} :
           /\ ranker' = out.self
           /\ files' = IF do_save /\ out.fit # Absent
                       THEN [files EXCEPT !.ranker = out.self]
                       ELSE files
           /\ tr' = [called |-> TRUE, df |-> df, save |-> do_save, before |-> ranker,
                     file |-> files.ranker, fit |-> out.fit]
    /\ UNCHANGED <<rk, pipeline, rc, bk, idx, disk, env, ops, sr, predictor, pkl, pp,
                 pipeline_instance, app, rq>>

\* the caller goes on
TrainReturn ==
    /\ tr # NoCall
    /\ tr' = NoCall
    /\ UNCHANGED <<ranker, rk, pipeline, rc, bk, idx, disk, env, ops, sr, predictor, pkl, pp,
                 pipeline_instance, files, app, rq>>

NextTrain ==
    \/ TrainReturn
    \/ /\ tr = NoCall
       /\ \E df \in TrainFrames, do_save \in BOOLEAN, fitted \in Boosters :
             \E test \in TestChoices(df) : RankerTrain(df, fitted, do_save, test)

SpecTrain == Init /\ [][NextTrain]_vars


\* InferencePipeline.load with the artifacts found on disk
PipelineLoad(model, catalog) ==
    /\ pipeline' = LoadedPipeline(model, catalog)
    /\ UNCHANGED <<ranker, rk, rc, bk, idx, disk, env, ops, sr, predictor, pkl, pp,
                 pipeline_instance, files, app, rq, tr>>

\* one call of recommend on the pipeline
Recommend(query, budget, city, state, top_n) ==
    /\ \E out \in recommend(pipeline, query, budget, city, state, top_n) :
          rc' = [called |-> TRUE, query |-> query, budget |-> budget,
                 city |-> city, state |-> state, top_n |-> top_n, out |-> out]
    /\ UNCHANGED <<ranker, rk, pipeline, bk, idx, disk, env, ops, sr, predictor, pkl, pp,
                 pipeline_instance, files, app, rq, tr>>

\* the caller takes the result
RecommendReturn ==
    /\ rc # NoCall
    /\ rc' = NoCall
    /\ UNCHANGED <<ranker, rk, pipeline, bk, idx, disk, env, ops, sr, predictor, pkl, pp,
                 pipeline_instance, files, app, rq, tr>>

NextPipe ==
    \/ RecommendReturn
    \/ /\ rc = NoCall
       /\ pipeline = NewPipeline
       /\ \E m \in PipeModels, catalog \in PipeCatalogs : PipelineLoad(m, catalog)
    \/ /\ rc = NoCall
       /\ \E q \in Queries, b \in PipeBudgets, city \in CityArgs,
             state \in StateArgs, n \in {MaxTopN} :
             Recommend(q, b, city, state, n)

SpecPipe == Init /\ [][NextPipe]_vars

\* recommend_basket is entered with the pipeline that Depends(get_pipeline)
\* hands over, which is a loaded one
BasketStart(req) ==
    /\ bk' = EnterBasket(req)
    /\ UNCHANGED <<ranker, rk, pipeline, rc, idx, disk, env, ops, sr, predictor, pkl, pp,
                 pipeline_instance, files, app, rq, tr>>

\* first call for the current item, with the per-item budget
BasketFirstCall ==
    /\ bk # NoCall
    /\ bk.pc = "first"
    /\ \E out \in recommend(pipeline, bk.req.items[bk.i], bk.per_item_budget,
                            bk.req.city, bk.req.state, BasketTopN) :
          bk' = AfterCall(bk, bk.per_item_budget, out,
                          IF out.results = <<>> THEN "retry" ELSE "record")
    /\ UNCHANGED <<ranker, rk, pipeline, rc, idx, disk, env, ops, sr, predictor, pkl, pp,
                 pipeline_instance, files, app, rq, tr>>

\* second call for the current item, made when the first found nothing
BasketRetry ==
    /\ bk # NoCall
    /\ bk.pc = "retry"
    /\ \E out \in recommend(pipeline, bk.req.items[bk.i], RetryBudget(bk),
                            bk.req.city, bk.req.state, BasketTopN) :
          bk' = AfterCall(bk, RetryBudget(bk), out, "record")
    /\ UNCHANGED <<ranker, rk, pipeline, rc, idx, disk, env, ops, sr, predictor, pkl, pp,
                 pipeline_instance, files, app, rq, tr>>

\* the line of the current item is appended and its cost added to the total
BasketRecord ==
    /\ bk # NoCall
    /\ bk.pc = "record"
    /\ bk' = [bk EXCEPT
                !.basket = Append(@, BasketItem(bk)),
                !.estimated_total = FAdd(@, BasketItem(bk).estimated_cost),
                !.results = <<>>,
                !.i = @ + 1,
                !.pc = IF bk.i = Len(bk.req.items) THEN "finish" ELSE "first"]
    /\ UNCHANGED <<ranker, rk, pipeline, rc, idx, disk, env, ops, sr, predictor, pkl, pp,
                 pipeline_instance, files, app, rq, tr>>

\* the response is built after the loop
BasketFinish ==
    /\ bk # NoCall
    /\ bk.pc = "finish"
    /\ bk' = [bk EXCEPT !.pc = "done", !.status = 200, !.resp = Response(bk)]
    /\ UNCHANGED <<ranker, rk, pipeline, rc, idx, disk, env, ops, sr, predictor, pkl, pp,
                 pipeline_instance, files, app, rq, tr>>

\* the response (or the error) has been sent
BasketReturn ==
    /\ bk # NoCall
    /\ bk.pc = "done"
    /\ bk' = NoCall
    /\ UNCHANGED <<ranker, rk, pipeline, rc, idx, disk, env, ops, sr, predictor, pkl, pp,
                 pipeline_instance, files, app, rq, tr>>

NextBasket ==
    \/ /\ bk = NoCall
       /\ pipeline = NewPipeline
       /\ \E catalog \in BasketCatalogs : PipelineLoad(None, catalog)
    \/ /\ bk = NoCall
       /\ pipeline # NewPipeline
       /\ \E req \in BasketRequests : BasketStart(req)
    \/ BasketFirstCall
    \/ BasketRetry
    \/ BasketRecord
    \/ BasketFinish
    \/ BasketReturn

SpecBasket == Init /\ [][NextBasket]_vars

\* a process starts with sentence_transformers and faiss installed or not
\* and constructs an index object; the embeddings directory stays
IndexStart(installed) ==
    /\ env' = installed
    /\ idx' = NewIndex
    /\ ops' = [ops EXCEPT !.completed = FALSE, !.lexical = FALSE, !.loaded = "no"]
    /\ UNCHANGED <<ranker, rk, pipeline, rc, bk, disk, sr, predictor, pkl, pp,
                 pipeline_instance, files, app, rq, tr>>

\* the save that has completed most recently on a lexically built object,
\* if the directory still is as that save left it
SavedAfter(object, lexical, err, dir) ==
    IF err = "none" THEN (IF lexical THEN object ELSE Absent)
    ELSE IF dir # disk THEN Absent
    ELSE ops.saved

\* idx.build(df, save)
IndexBuild(df, do_save) ==
    LET b == build(idx, df, env, do_save, disk)
        lexical == b.err = "none" /\ ~env
    IN  /\ idx' = b.self
        /\ disk' = b.disk
        /\ ops' = [completed |-> ops.completed \/ b.err = "none",
                   lexical |-> lexical,
                   loaded |-> "no",
                   saved |-> IF do_save /\ b.disk # disk
                             THEN SavedAfter(b.self, lexical, b.err, b.disk)
                             ELSE ops.saved]
        /\ UNCHANGED <<ranker, rk, pipeline, rc, bk, env, sr, predictor, pkl, pp,
                 pipeline_instance, files, app, rq, tr>>

\* idx.save()
IndexSave ==
    LET s == save(idx, disk)
    IN  /\ disk' = s.disk
        /\ ops' = [ops EXCEPT !.loaded = "no",
                              !.saved = SavedAfter(idx, ops.lexical, s.err, s.disk)]
        /\ UNCHANGED <<ranker, rk, pipeline, rc, bk, idx, env, sr, predictor, pkl, pp,
                 pipeline_instance, files, app, rq, tr>>

\* idx = ProductSearchIndex.load(); when load raises idx stays what it was
IndexLoad ==
    LET l == load(disk, env)
    IN  /\ idx' = IF l.err = "none" THEN l.instance ELSE idx
        /\ ops' = [ops EXCEPT !.completed = ops.completed \/ l.err = "none",
                              !.lexical = ops.lexical /\ l.err # "none",
                              !.loaded = IF l.err = "none" THEN "yes" ELSE "failed"]
        /\ UNCHANGED <<ranker, rk, pipeline, rc, bk, disk, env, sr, predictor, pkl, pp,
                 pipeline_instance, files, app, rq, tr>>

\* one call of idx.search
IndexSearch(query, top_k) ==
    /\ \E out \in search(idx, query, top_k) :
          sr' = [called |-> TRUE, query |-> query, top_k |-> top_k, out |-> out]
    /\ UNCHANGED <<ranker, rk, pipeline, rc, bk, idx, disk, env, ops, predictor, pkl, pp,
                 pipeline_instance, files, app, rq, tr>>

\* the caller takes the result
IndexSearchReturn ==
    /\ sr # NoCall
    /\ sr' = NoCall
    /\ UNCHANGED <<ranker, rk, pipeline, rc, bk, idx, disk, env, ops, predictor, pkl, pp,
                 pipeline_instance, files, app, rq, tr>>

NextIndex ==
    \/ IndexSearchReturn
    \/ /\ sr = NoCall
       /\ \E installed \in BOOLEAN : IndexStart(installed)
    \/ /\ sr = NoCall
       /\ \E df \in IndexFrames, do_save \in BOOLEAN : IndexBuild(df, do_save)
    \/ /\ sr = NoCall
       /\ IndexSave
    \/ /\ sr = NoCall
       /\ IndexLoad
    \/ /\ sr = NoCall
       /\ \E q \in IndexQueries, k \in 0..MaxTopN : IndexSearch(q, k)

SpecIndex == Init /\ [][NextIndex]_vars

\* predictor.train(df, save) on a history with the given number of usable rows
PredictorTrain(usable, do_save) ==
    /\ predictor' = train(predictor, usable)
    /\ pkl' = IF do_save /\ usable >= MinTrainSamples
              THEN [object |-> train(predictor, usable)]
              ELSE pkl
    /\ pp' = [called |-> TRUE, op |-> "train", usable |-> usable, save |-> do_save,
              before |-> predictor, file |-> pkl]
    /\ UNCHANGED <<ranker, rk, pipeline, rc, bk, idx, disk, env, ops, sr,
                 pipeline_instance, files, app, rq, tr>>

\* predictor.save()
PredictorSave ==
    /\ pkl' = [object |-> predictor]
    /\ UNCHANGED <<ranker, rk, pipeline, rc, bk, idx, disk, env, ops, sr, predictor, pp,
                 pipeline_instance, files, app, rq, tr>>

\* one call of predictor.predict_next_price
PredictNextPrice(sku, df, y) ==
    /\ pp' = [called |-> TRUE, op |-> "predict_next_price", sku |-> sku, df |-> df,
              out |-> predict_next_price(predictor, sku, df, y)]
    /\ UNCHANGED <<ranker, rk, pipeline, rc, bk, idx, disk, env, ops, sr, predictor, pkl,
                 pipeline_instance, files, app, rq, tr>>

\* one request GET /price-trend/{sku}
PriceTrend(sku, df, y) ==
    /\ \E answer \in price_trend(pkl, sku, df, y) :
          pp' = [called |-> TRUE, op |-> "price_trend", sku |-> sku, df |-> df,
                 out |-> answer]
    /\ UNCHANGED <<ranker, rk, pipeline, rc, bk, idx, disk, env, ops, sr, predictor, pkl,
                 pipeline_instance, files, app, rq, tr>>

\* the caller takes the result
PredictReturn ==
    /\ pp # NoCall
    /\ pp' = NoCall
    /\ UNCHANGED <<ranker, rk, pipeline, rc, bk, idx, disk, env, ops, sr, predictor, pkl,
                 pipeline_instance, files, app, rq, tr>>

NextPredict ==
    \/ PredictReturn
    \/ /\ pp = NoCall
       /\ \E usable \in {0, MinTrainSamples - 1, MinTrainSamples}, do_save \in BOOLEAN :
             PredictorTrain(usable, do_save)
    \/ /\ pp = NoCall
       /\ PredictorSave
    \/ /\ pp = NoCall
       /\ \E sku \in Skus, df \in Histories, y \in Predictions :
             PredictNextPrice(sku, df, y)
    \/ /\ pp = NoCall
       /\ \E sku \in Skus, df \in Histories, y \in Predictions :
             PriceTrend(sku, df, y)

SpecPredict == Init /\ [][NextPredict]_vars

\* train_pipeline.run, in a process of its own, on the raw dataset: the
\* dataset is cleaned and the processed catalog is written, the ranker is
\* pickled when it was trained, the index is built and saved into the
\* embeddings directory as it is
TrainPipelineRun(raw, usable, fitted, installed) ==
    /\ \E df \in clean(raw) :
          /\ files' = [raw |-> raw, processed |-> df,
                       ranker |-> IF usable < MinTrainRows THEN files.ranker
                                  ELSE [model |-> fitted]]
          /\ disk' = build(NewIndex, df, installed, TRUE, disk).disk
    /\ UNCHANGED <<ranker, rk, pipeline, rc, bk, idx, env, ops, sr, predictor, pkl, pp,
                 pipeline_instance, app, rq, tr>>

\* the serving process is started, or started anew: the module global is None
AppStart ==
    /\ pipeline_instance' = Absent
    /\ app' = NewApp
    /\ UNCHANGED <<ranker, rk, pipeline, rc, bk, idx, disk, env, ops, sr, predictor, pkl, pp,
                 files, rq, tr>>

\* the lifespan hook: get_pipeline is called once; an exception ends the
\* startup and no request is served
Lifespan ==
    /\ LET got == get_pipeline(pipeline_instance, files, disk, env)
       IN  /\ pipeline_instance' = got.instance
           /\ app' = [phase |-> IF got.err = "none" THEN "serving" ELSE "failed",
                      loads |-> Counted(app.loads, got.loaded),
                      started |-> got.instance]
    /\ UNCHANGED <<ranker, rk, pipeline, rc, bk, idx, disk, env, ops, sr, predictor, pkl, pp,
                 files, rq, tr>>

\* one call of get_pipeline by code of the process
GetPipelineCall ==
    /\ LET got == get_pipeline(pipeline_instance, files, disk, env)
       IN  /\ pipeline_instance' = got.instance
           /\ app' = [app EXCEPT !.loads = Counted(@, got.loaded)]
           /\ rq' = [called |-> TRUE, op |-> "get_pipeline", got |-> got,
                     loaded |-> got.loaded, out |-> Absent]
    /\ UNCHANGED <<ranker, rk, pipeline, rc, bk, idx, disk, env, ops, sr, predictor, pkl, pp,
                 files, tr>>

\* one request POST /search
SearchRequest(query, budget, city, state, max_results) ==
    /\ LET got == get_pipeline(pipeline_instance, files, disk, env)
       IN  /\ pipeline_instance' = got.instance
           /\ app' = [app EXCEPT !.loads = Counted(@, got.loaded)]
           /\ \E out \in search_products(got, query, budget, city, state, max_results) :
                 rq' = [called |-> TRUE, op |-> "search", got |-> got,
                        loaded |-> got.loaded, out |-> out]
    /\ UNCHANGED <<ranker, rk, pipeline, rc, bk, idx, disk, env, ops, sr, predictor, pkl, pp,
                 files, tr>>

\* one request GET /price-trend/{sku}: the forecaster is unpickled by the
\* request
PriceTrendRequest(sku, y) ==
    /\ LET got == get_pipeline(pipeline_instance, files, disk, env)
           loaded == got.loaded \cup
                     (IF got.err = "none" /\ pkl # Absent THEN {"forecaster"} ELSE {})
       IN  /\ pipeline_instance' = got.instance
           /\ app' = [app EXCEPT !.loads = Counted(@, loaded)]
           /\ \E out \in price_trend_served(got, pkl, sku, y) :
                 rq' = [called |-> TRUE, op |-> "price_trend", sku |-> sku,
                        got |-> got, loaded |-> loaded, out |-> out]
    /\ UNCHANGED <<ranker, rk, pipeline, rc, bk, idx, disk, env, ops, sr, predictor, pkl, pp,
                 files, tr>>

\* the caller takes the answer
RequestReturn ==
    /\ rq # NoCall
    /\ rq' = NoCall
    /\ UNCHANGED <<ranker, rk, pipeline, rc, bk, idx, disk, env, ops, sr, predictor, pkl, pp,
                 pipeline_instance, files, app, tr>>

\* no call is under way
Idle == rq = NoCall /\ pp = NoCall

NextApp ==
    \/ RequestReturn
    \/ PredictReturn
    \/ /\ Idle
       /\ \E raw \in RawFrames, usable \in {0, MinTrainRows}, installed \in BOOLEAN :
             TrainPipelineRun(raw, usable, "byValue", installed)
    \/ /\ Idle
       /\ \E usable \in {0, MinTrainSamples} : PredictorTrain(usable, TRUE)
    \/ /\ Idle
       /\ app.phase # "init"
       /\ AppStart
    \/ /\ Idle
       /\ app.phase = "init"
       /\ Lifespan
    \/ /\ Idle
       /\ app.phase \in {"init", "serving"}
       /\ GetPipelineCall
    \/ /\ Idle
       /\ app.phase = "serving"
       /\ \E budget \in PipeBudgets, n \in {1, MaxTopN} :
             SearchRequest("chicken", budget, None, None, n)
    \/ /\ Idle
       /\ app.phase = "serving"
       /\ app.loads["forecaster"] < MaxLoads
       /\ \E sku \in Skus \cup {"C"}, y \in {PriceFloor} :
             PriceTrendRequest(sku, y)

SpecApp == Init /\ [][NextApp]_vars


-----------------------------------------------------------------------------
(* Properties of rank_products *)

RankDone == rk # NoCall /\ rk.out.err = "none"

OutRows == rk.out.df.rows

\* positions of the input rows whose price is within the budget
Affordable == {i \in 1..Len(rk.df.rows) : Leq(rk.df.rows[i].Package_price, rk.budget)}

\* positions of the input rows that pass the budget cutoff and, when the
\* frame carries a search_score, the relevance guard
Survivors ==
    {i \in Affordable :
        ScoreCol \in rk.df.cols => Gt(rk.df.rows[i].search_score, MinSearchScore)}

\* C1: every row returned by rank_products has Package_price <= budget,
\* trained or untrained, with or without a search_score column.
C1_WithinBudget ==
    RankDone => \A i \in 1..Len(OutRows) : Leq(OutRows[i].Package_price, rk.budget)

C1_Witness ==
    /\ RankDone
    /\ rk.model # None
    /\ ScoreCol \in rk.df.cols
    /\ OutRows # <<>>
    /\ \E i \in 1..Len(rk.df.rows) : ~Leq(rk.df.rows[i].Package_price, rk.budget)

\* C7: when no candidate has Package_price <= budget the call returns an
\* empty frame and raises nothing; with budget 0 the result is empty unless
\* a zero-price product is among the candidates.
C7_EmptyWhenNothingAffordable ==
    (rk # NoCall /\ "Package_price" \in rk.df.cols) =>
        /\ Affordable = {} => rk.out = Returned(EmptyFrame)
        /\ (rk.budget = 0 /\ \A i \in 1..Len(rk.df.rows) : rk.df.rows[i].Package_price # 0)
              => (rk.out.err = "none" /\ IsEmpty(rk.out.df))

C7_Witness ==
    /\ rk # NoCall
    /\ rk.budget = 0
    /\ rk.df.rows # <<>>
    /\ "value_score" \notin rk.df.cols
    /\ Affordable = {}
    /\ rk.out = Returned(EmptyFrame)

\* C8: the call returns exactly min(top_n, k) rows, k being the number of
\* candidates that survive the budget cutoff and the relevance guard.
C8_RowCount ==
    RankDone => Len(OutRows) = Min(rk.top_n, Cardinality(Survivors))

C8_Witness ==
    /\ RankDone
    /\ Cardinality(Survivors) > rk.top_n
    /\ rk.top_n > 0
    /\ Len(OutRows) = rk.top_n

ValuePlusDiscount(r) == FillNa0(r.value_score) + FillNa0(r.discount_pct)

SameSearchScore(a, b) == ScoreCol \in rk.df.cols => a.search_score = b.search_score

\* C9: with no trained model, of two surviving candidates with equal
\* search_score (or none) the one with the higher value_score + discount_pct
\* comes earlier: whenever the lower one is returned, the higher one is
\* returned before it.
C9_FallbackMonotone ==
    (RankDone /\ rk.model = None) =>
        \A j \in 1..Len(OutRows) : \A a \in Survivors :
            (/\ SameSearchScore(rk.df.rows[a], OutRows[j])
             /\ ValuePlusDiscount(rk.df.rows[a]) > ValuePlusDiscount(OutRows[j]))
            => \E i \in 1..(j - 1) : OutRows[i] = rk.df.rows[a]

C9_Witness ==
    /\ RankDone
    /\ rk.model = None
    /\ Len(OutRows) = 2
    /\ OutRows[1].value_score = 1 /\ OutRows[1].discount_pct = 1
    /\ OutRows[2].value_score = 1 /\ OutRows[2].discount_pct = 0
    /\ rk.df.rows[1] = OutRows[2]
    /\ SameSearchScore(OutRows[1], OutRows[2])

\* C10: with a search_score column no returned row has search_score <= 0.01
\* and the result is empty when every affordable candidate is at or below
\* 0.01; without the column no candidate is dropped for its relevance.
C10_RelevanceGuard ==
    RankDone =>
        IF ScoreCol \in rk.df.cols
        THEN /\ \A i \in 1..Len(OutRows) : Gt(OutRows[i].search_score, MinSearchScore)
             /\ (\A i \in Affordable : ~Gt(rk.df.rows[i].search_score, MinSearchScore))
                   => IsEmpty(rk.out.df)
        ELSE Len(OutRows) = Min(rk.top_n, Cardinality(Affordable))

C10_Witness ==
    /\ RankDone
    /\ ScoreCol \in rk.df.cols
    /\ Len(OutRows) = 1
    /\ Cardinality(Affordable) = 2
    /\ rk.top_n >= 2
    /\ \E i \in Affordable : rk.df.rows[i].search_score = MinSearchScore

-----------------------------------------------------------------------------
(* Properties of InferencePipeline.recommend *)

Retrieved == rc.out.retrieved

\* the rows of a sequence whose city is the requested one, case ignored
InCity(rows) == {i \in 1..Len(rows) : Lower(rows[i].city) = Lower(rc.city)}

\* the rows of a sequence whose state is the requested one, case ignored
InState(rows) == {i \in 1..Len(rows) : Upper(rows[i].state) = Upper(rc.state)}

Keep(rows, at) == SelectSeq(rows, LAMBDA r : \E i \in at : rows[i] = r)

\* C5: the city filter is applied only when some candidate matches; the state
\* filter is evaluated on the city-filtered candidates and applied only when
\* some of those match; a non-empty retrieval is never emptied by either.
C5_SoftLocationFilters ==
    (rc # NoCall /\ Retrieved # <<>>) =>
        /\ rc.out.city_rows =
              IF Truthy(rc.city) /\ InCity(Retrieved) # {}
              THEN Keep(Retrieved, InCity(Retrieved)) ELSE Retrieved
        /\ rc.out.state_rows =
              IF Truthy(rc.state) /\ InState(rc.out.city_rows) # {}
              THEN Keep(rc.out.city_rows, InState(rc.out.city_rows))
              ELSE rc.out.city_rows
        /\ rc.out.city_rows # <<>>
        /\ rc.out.state_rows # <<>>

\* a city that matches part of the candidates, then a state that matches a
\* retrieved row but none of the city-filtered ones
C5_Witness ==
    /\ rc # NoCall
    /\ Truthy(rc.city) /\ Truthy(rc.state)
    /\ Len(Retrieved) = 2
    /\ Len(rc.out.city_rows) = 1
    /\ InState(Retrieved) # {}
    /\ InState(rc.out.city_rows) = {}
    /\ rc.out.state_rows = rc.out.city_rows

\* the located candidates that are within budget and pass the relevance guard
Rankable ==
    {i \in 1..Len(rc.out.state_rows) :
        /\ Leq(rc.out.state_rows[i].Package_price, rc.budget)
        /\ Gt(rc.out.state_rows[i].search_score, MinSearchScore)}

\* C6: on a loaded pipeline recommend returns the empty list, and no error,
\* whenever retrieval returns nothing, nothing is within budget or the
\* relevance guard removes everything.
C6_EmptyIsNotAnError ==
    (rc # NoCall /\ pipeline # NewPipeline /\ (Retrieved = <<>> \/ Rankable = {}))
        => (rc.out.err = "none" /\ rc.out.results = <<>>)

C6_Witness ==
    /\ rc # NoCall
    /\ pipeline # NewPipeline
    /\ Retrieved # <<>>
    /\ \E i \in 1..Len(rc.out.state_rows) :
          Leq(rc.out.state_rows[i].Package_price, rc.budget)
    /\ Rankable = {}
    /\ rc.out.err = "none" /\ rc.out.results = <<>>

-----------------------------------------------------------------------------
(* Properties of recommend_basket *)

CallsFor(i) == SelectSeq(bk.calls, LAMBDA c : c.item = i)

LineCosts == [i \in 1..Len(bk.basket) |-> bk.basket[i].estimated_cost]

\* the per-item budget of the request in hand
Share == RoundRat(bk.req.total_budget, Len(bk.req.items))

C3_ReportedTotals ==
    (bk # NoCall /\ bk.pc = "done" /\ bk.status = 200) =>
        /\ ToCents(bk.resp.estimated_total) =
              SumSeq([i \in 1..Len(bk.basket) |-> ToCents(LineCosts[i])])
        /\ bk.resp.within_budget = (bk.resp.estimated_total <= bk.req.total_budget)

\* C4: an empty items list ends the request with status 400 before the
\* per-item budget is computed and before any call of recommend.
C4_EmptyItemsRejected ==
    (bk # NoCall /\ bk.req.items = <<>>) =>
        /\ bk.pc = "done"
        /\ bk.status = 400
        /\ bk.per_item_budget = Unbound
        /\ bk.calls = <<>>

C4_Witness ==
    /\ bk # NoCall
    /\ bk.req.items = <<>>
    /\ bk.status = 400
    /\ pipeline.search_index.product_df # <<>>

-----------------------------------------------------------------------------
(* Properties of ProductSearchIndex *)

\* C11: search fails with the "index not built" RuntimeError in every state
\* in which no build and no load has completed on the index object, and never
\* with that error once a build or a load has completed.
C11_NotInitializedError ==
    sr # NoCall => (sr.out.err = "RuntimeError" <=> ~ops.completed)

SearchDone == sr # NoCall /\ sr.out.err = "none"

\* C12: in semantic and in lexical mode, for every query and every top_k >= 0,
\* search returns at most top_k rows and their search_score values are in
\* non-increasing order.
C12_AtMostTopKBestFirst ==
    SearchDone =>
        LET rows == sr.out.df.rows
        IN  /\ Len(rows) <= sr.top_k
            /\ \A i \in 1..Len(rows) : \A j \in 1..Len(rows) :
                  i < j => rows[i].search_score >= rows[j].search_score

\* a lexical search that had to order and to cut
C12_Witness ==
    /\ SearchDone
    /\ ~idx.use_faiss
    /\ ops.completed
    /\ idx.product_df.rows[1].vec = "vMilk"
    /\ Len(idx.product_df.rows) = 2
    /\ sr.top_k = 1
    /\ sr.out.df.rows[1].vec = "vChicken"

\* the vectors or term rows that search scores
VectorsInUse(self) ==
    IF self.use_faiss /\ self.index # Absent
    THEN self.index.vectors
    ELSE self.tfidf_matrix.rows

\* as many vectors as rows, and vector i is the vector of the name in row i
Aligned(self) ==
    /\ Len(VectorsInUse(self)) = Len(self.product_df.rows)
    /\ \A i \in 1..Len(self.product_df.rows) :
          VectorsInUse(self)[i] = self.product_df.rows[i].vec

LoadDone == ops.loaded = "yes"

\* C13: after any sequence of build, save and load, in any mix of modes and
\* with artifacts of earlier builds in the directory, the index that load
\* returns for a catalog of named products is aligned with its product_df:
\* as many vectors or term rows as rows, and position i of the index
\* describes row i.
C13_LoadKeepsAlignment ==
    (LoadDone /\ NameCol \in idx.product_df.cols) => Aligned(idx)

\* C14: after a lexical build, save followed by load gives an index that is
\* in lexical mode again, has the term model and the matrix that were saved,
\* and answers every query and top_k as the saved index does.
C14_LexicalRoundTrip ==
    (ops.loaded # "no" /\ ops.saved # Absent)
    => /\ ops.loaded = "yes"
       /\ ~idx.use_faiss
       /\ idx.tfidf = ops.saved.tfidf
       /\ idx.tfidf_matrix = ops.saved.tfidf_matrix
       /\ \A q \in IndexQueries, k \in 0..MaxTopN :
             search(idx, q, k) = search(ops.saved, q, k)

-----------------------------------------------------------------------------
(* Properties of PricePredictor *)

PredictCalled == pp # NoCall /\ pp.op = "predict_next_price"

\* the observations of the identifier asked for
Observations == SkuRows(pp.sku, pp.df)

LastKnown == Observations[Len(Observations)].Package_price

\* C15: for an identifier with at least one and fewer than min_history
\* observations, and for every identifier with observations when the model
\* is not trained, predict_next_price returns the last known price as the
\* prediction, trend "stable" and confidence "low", and applies neither the
\* scaler nor the model.
C15_FallbackIsLastKnown ==
    (PredictCalled /\ Len(Observations) >= 1
        /\ (Len(Observations) < predictor.min_history \/ ~predictor.is_trained))
    => /\ pp.out.err = "none"
       /\ ~pp.out.applied
       /\ pp.out.trend.predicted_price = pp.out.trend.last_known_price
       /\ pp.out.trend.predicted_price = LastKnown
       /\ pp.out.trend.trend = "stable"
       /\ pp.out.trend.confidence = "low"

\* a trained model and exactly min_history - 1 observations
C15_Witness ==
    /\ PredictCalled
    /\ predictor.is_trained
    /\ Len(Observations) = predictor.min_history - 1
    /\ LastKnown = 400
    /\ pp.out.trend.predicted_price = 400
    /\ pp.out.trend.confidence = "low"

\* C16: for an identifier without rows predict_next_price returns the "not
\* found" outcome, trained or not, without reaching the fallback or the
\* model, and the price-trend endpoint answers that outcome with 404.
C16_UnknownSkuNotFound ==
    /\ (PredictCalled /\ Observations = <<>>)
          => /\ pp.out.err = "none"
             /\ "error" \in DOMAIN pp.out.trend
             /\ "predicted_price" \notin DOMAIN pp.out.trend
             /\ ~pp.out.applied
    /\ (pp # NoCall /\ pp.op = "price_trend" /\ pp.out.predicted # Absent
            /\ Observations = <<>>)
          => pp.out.status = 404

\* a trained model, a history long enough for the model path, none of it
\* about the identifier
C16_Witness ==
    /\ pp # NoCall /\ pp.op = "price_trend"
    /\ pkl # Absent /\ pkl.object.is_trained
    /\ Len(pp.df) >= pkl.object.min_history
    /\ Observations = <<>>
    /\ pp.out.status = 404

OnModelPath ==
    /\ PredictCalled
    /\ predictor.is_trained
    /\ Len(Observations) >= predictor.min_history
    /\ pp.out.err = "none"

\* C17: on the model path the reported prediction is at least 0.10, and with
\* change = max(prediction, 0.10) - last_known the trend is "rising" exactly
\* when change > 0.20, "falling" exactly when change < -0.20, and "stable"
\* otherwise.
C17_FlooredPredictionAndTrend ==
    OnModelPath =>
        LET floored == IF pp.out.raw < PriceFloor THEN PriceFloor ELSE pp.out.raw
            change == Minus(floored, LastKnown)
        IN  /\ pp.out.trend.predicted_price >= PriceFloor
            /\ pp.out.trend.trend = "rising" <=> Gt(change, TrendThreshold)
            /\ pp.out.trend.trend = "falling" <=> Lt(change, -TrendThreshold)
            /\ pp.out.trend.trend \in {"rising", "falling", "stable"}

\* a prediction below the floor that would be "falling" without the floor
C17_Witness ==
    /\ OnModelPath
    /\ pp.out.raw < PriceFloor
    /\ LastKnown = 300
    /\ pp.out.trend.predicted_price = PriceFloor
    /\ pp.out.trend.trend = "stable"

-----------------------------------------------------------------------------
(* Scoring on candidates with a missing feature (SpecRank) *)

\* the feature columns the scoring path of the call reads
Required == IF rk.model # None THEN FeatureNames \ {"Package_price"}
            ELSE {"value_score", "discount_pct"}

\* a required feature is absent from the frame, or null in one of its rows
FeatureMissing ==
    \/ ~(Required \subseteq rk.df.cols)
    \/ \E i \in 1..Len(rk.df.rows) :
          rk.df.rows[i].value_score = NaN \/ rk.df.rows[i].discount_pct = NaN

\* a row with every required feature that the frame lacks, or that is null,
\* read as 0
Defaulted(r) ==
    [r EXCEPT !.value_score = IF "value_score" \in rk.df.cols THEN FillNa0(@) ELSE 0,
              !.discount_pct = IF "discount_pct" \in rk.df.cols THEN FillNa0(@) ELSE 0]

\* C18: whenever a required feature (value_score or discount_pct) is absent
\* from the candidates or null in a row, rank_products raises nothing, and
\* the rows it returns are in non-increasing order of the score computed
\* with that feature as 0.
C18_MissingFeatureIsZero ==
    (rk # NoCall /\ "Package_price" \in rk.df.cols /\ FeatureMissing) =>
        /\ rk.out.err = "none"
        /\ \A i, j \in 1..Len(OutRows) :
              i < j => TotalScore(rk.model, rk.df.cols, Defaulted(OutRows[i]))
                         >= TotalScore(rk.model, rk.df.cols, Defaulted(OutRows[j]))

-----------------------------------------------------------------------------
(* The serving process (SpecApp) *)

\* a request has been served
Served == rq # NoCall /\ rq.op \in {"search", "price_trend"}

\* C19: in one process no component (ranker, search index, catalog,
\* forecaster) is loaded more than once, and a request that is served after
\* the startup loads no artifact and is handed the pipeline object that the
\* startup left.
C19_LoadedOncePerProcess ==
    /\ \A c \in Components : app.loads[c] <= 1
    /\ Served => (rq.loaded = {} /\ rq.got.instance = app.started)

\* every field of the pipeline is set
Complete(p) ==
    p # Absent /\ p.ranker # Absent /\ p.search_index # Absent /\ p.full_df # Absent

\* C20: a call of get_pipeline that returns (by the lifespan hook, by the
\* dependency of a request, or direct) returns a pipeline whose ranker,
\* search_index and full_df are all set; after a load that raised, a later
\* call raises or loads again.
C20_NeverHandsOutUnloaded ==
    (rq # NoCall /\ rq.got.err = "none") => Complete(rq.got.instance)

-----------------------------------------------------------------------------
(* Lifecycle of the forecaster (SpecPredict) *)

TrainCalled == pp # NoCall /\ pp.op = "train"

\* a train on too few usable rows changes neither the object nor the artifact
TooFewLeavesUnchanged ==
    (TrainCalled /\ pp.usable < MinTrainSamples) =>
        (predictor = pp.before /\ pkl = pp.file)

\* a trained forecaster has its fitted feature list
TrainedHasFeatureCols ==
    predictor.is_trained =>
        (predictor.fitted /\ predictor.trained_feature_cols # Absent)

\* is_trained changes only from false to true, in a train on enough rows
TrainedOnlyByTrain ==
    predictor'.is_trained # predictor.is_trained =>
        /\ predictor'.is_trained
        /\ pp' # NoCall /\ pp'.op = "train" /\ pp'.usable >= MinTrainSamples

\* C21: is_trained is false at construction; a train on fewer than
\* MinTrainSamples usable rows leaves the forecaster (is_trained, the fitted
\* model and scaler, the feature list) as it was and saves nothing;
\* is_trained becomes true only in a train on at least MinTrainSamples usable
\* rows; a trained forecaster always has its fitted feature list.
C21_ForecasterLifecycle ==
    /\ ~predictor.is_trained
    /\ [](TooFewLeavesUnchanged /\ TrainedHasFeatureCols)
    /\ [][TrainedOnlyByTrain]_vars

\* a trained forecaster, with its artifact saved, has just been trained again
\* on too few rows
C21_Witness ==
    /\ TrainCalled
    /\ pp.usable < MinTrainSamples
    /\ pp.before.is_trained
    /\ pp.file # Absent

-----------------------------------------------------------------------------
(* Training of the ranker (SpecTrain) *)

\* the call of train under way was made on too few usable rows
TooFewRows == tr # NoCall /\ Len(UsableRows(tr.df)) < MinTrainRows

\* C22: a train on an empty frame, or on fewer than MinTrainRows rows with
\* price_per_100g and value_score, is a no-op: the ranker (its model, a
\* booster or still None, which rank_products goes on using) is as before
\* the call, lgb.train was not called and no artifact was written.
C22_TrainNoOpBelowThreshold ==
    TooFewRows =>
        /\ ranker = tr.before
        /\ tr.fit = Absent
        /\ files.ranker = tr.file

\* a trained and saved ranker is trained again, with saving, on a frame of
\* MinTrainRows rows of which one has no value score
C22_Witness ==
    /\ TooFewRows
    /\ Len(tr.df) >= MinTrainRows
    /\ tr.before.model # None
    /\ tr.file # Absent
    /\ tr.save

-----------------------------------------------------------------------------
(* The history that the price-trend path reads (SpecApp) *)

\* a price-trend request was served with the forecaster artifact, by a
\* pipeline whose table is the processed catalog of the last run of
\* train_pipeline
TrendServed ==
    /\ rq # NoCall /\ rq.op = "price_trend" /\ rq.got.err = "none"
    /\ pkl # Absent
    /\ Complete(rq.got.instance)
    /\ rq.got.instance.full_df = files.processed

\* the observations of the identifier in the raw dataset of that run, and
\* in the table that predict_next_price was given
Observed == SkuRows(rq.sku, AsHistory(files.raw))

Passed == SkuRows(rq.sku, AsHistory(rq.got.instance.full_df))

\* C23: the table that price_trend passes to the forecaster holds every
\* dated observation of the identifier, not one row per identifier; so an
\* identifier observed on min_history or more dates is answered on the model
\* path of a trained forecaster.
C23_ForecasterReadsFullHistory ==
    TrendServed =>
        /\ Len(Passed) = Len(Observed)
        /\ (Len(Observed) >= pkl.object.min_history /\ pkl.object.is_trained) =>
              (rq.out.status = 200 /\ rq.out.predicted.applied)

-----------------------------------------------------------------------------
(* The last known price (SpecPredict) *)

\* the observations of the identifier that have a price
Priced == Usable(Observations)

\* the prices of its most recent priced observations
MostRecentPrices ==
    {Priced[i].Package_price :
        i \in {k \in DOMAIN Priced :
                  \A j \in DOMAIN Priced : Priced[j].RunDate <= Priced[k].RunDate}}

\* C24: whatever the order of the rows of the history, and also when some
\* observations of the identifier have no price, the last_known_price that
\* predict_next_price reports (the fallback prediction) is the price of a
\* most recent observation of the identifier by date.
C24_LastKnownIsMostRecent ==
    (PredictCalled /\ Priced # <<>> /\ pp.out.err = "none") =>
        \E price \in MostRecentPrices :
            pp.out.trend.last_known_price =
                IF pp.out.applied THEN RoundCents(price) ELSE price

-----------------------------------------------------------------------------
(* Relevance labels and the split of train (SpecTrain) *)

\* train went as far as lgb.train
Fitted == tr # NoCall /\ tr.fit # Absent

\* the labelled rows that lgb.train was given, of both splits
Labelled == tr.fit.train_rows \o tr.fit.val_rows

\* the labelled rows of one sub-category
GroupOf(g) == SelectSeq(Labelled, LAMBDA r : r.Sub_category = g)

\* the sub-categories whose rows all have one value score
ConstantGroups ==
    {g \in SubCategories(Labelled) :
        \A i, j \in DOMAIN GroupOf(g) :
            GroupOf(g)[i].value_score = GroupOf(g)[j].value_score}

\* C25: every relevance label is an integer of 0..MAX_LABEL, and within a
\* sub-category a product of no larger value score has no larger label, so
\* that products of equal value score have equal labels.
C25_LabelsMonotoneInValue ==
    Fitted =>
        /\ \A i \in DOMAIN Labelled : Labelled[i].relevance \in 0..MAX_LABEL
        /\ \A i, j \in DOMAIN Labelled :
               (/\ Labelled[i].Sub_category = Labelled[j].Sub_category
                /\ Labelled[i].value_score <= Labelled[j].value_score)
               => Labelled[i].relevance <= Labelled[j].relevance

\* C26: in a sub-category of any size whose products all have the same
\* value score, every relevance label is 0.
C26_ConstantGroupsCollapse ==
    Fitted =>
        \A g \in ConstantGroups :
            \A i \in DOMAIN GroupOf(g) : GroupOf(g)[i].relevance = 0

\* C27: in a sub-category of one product, the relevance label of that
\* product is 0.
C27_SingletonLabelZero ==
    Fitted =>
        \A g \in SubCategories(Labelled) :
            Len(GroupOf(g)) = 1 => GroupOf(g)[1].relevance = 0

\* lgb.train was given a sub-category of one product next to larger ones
C27_Witness ==
    /\ Fitted
    /\ \E g \in SubCategories(Labelled) : Len(GroupOf(g)) = 1
    /\ \E g \in SubCategories(Labelled) : Len(GroupOf(g)) > 1

\* the number of sub-categories of the usable rows of the frame
NGroups == Cardinality(SubCategories(UsableRows(tr.df)))

\* C28: with two sub-categories or more, no sub-category has rows in both
\* the training and the validation split, neither split is empty and the
\* group sizes of each split add up to its number of rows; with one
\* sub-category lgb.train gets all usable rows, no validation set and no
\* early stopping.
C28_GroupDisjointSplit ==
    Fitted =>
        /\ NGroups >= 2 =>
               /\ SubCategories(tr.fit.train_rows) \cap SubCategories(tr.fit.val_rows) = {}
               /\ tr.fit.train_rows # <<>>
               /\ tr.fit.val_rows # <<>>
               /\ SumSeq(tr.fit.train_groups) = Len(tr.fit.train_rows)
               /\ SumSeq(tr.fit.val_groups) = Len(tr.fit.val_rows)
               /\ tr.fit.valid_sets
        /\ NGroups = 1 =>
               /\ Len(tr.fit.train_rows) = Len(UsableRows(tr.df))
               /\ SumSeq(tr.fit.train_groups) = Len(tr.fit.train_rows)
               /\ tr.fit.val_rows = <<>>
               /\ ~tr.fit.valid_sets
               /\ ~tr.fit.early_stopping

\* a frame of three sub-categories, one of them in the validation split
C28_Witness ==
    /\ Fitted
    /\ NGroups = 3
    /\ Cardinality(SubCategories(tr.fit.val_rows)) = 1
    /\ Cardinality(SubCategories(tr.fit.train_rows)) = 2

====
